---- MODULE Spec2Model ----
(***************************************************************************)
(* Scaled dot-product attention (SelfAttention) and its multi-head         *)
(* generalisation (MultiHeadAttention) as written in the two Flax          *)
(* notebooks.                                                              *)
(*                                                                         *)
(* Numbers.  Tensor entries are exact rationals <<n, d>> in lowest terms   *)
(* with d > 0.  The score tensor divided by jnp.sqrt(head_dim) is kept     *)
(* exactly: its entries count units of 1/sqrt(head_dim) and the tensor     *)
(* carries the radicand in its field rad (rad = 1 for every other          *)
(* tensor).  jnp.exp is modelled on these entries by Exp: a positive,      *)
(* strictly increasing function with Exp(a + b) = Exp(a) * Exp(b) whose    *)
(* values are rational (two to the power of the entry).  Floating-point    *)
(* rounding is not modelled.                                               *)
(*                                                                         *)
(* Tensors.  A tensor is a record [ok, shape, data, rad]: data is the      *)
(* flat row-major buffer (1-based sequence) of the entries, shape the      *)
(* tuple of dimension sizes.  A Python exception raised by an operation   *)
(* is the tensor Raised; every operation propagates it, as an exception    *)
(* aborts the rest of __call__.                                            *)
(***************************************************************************)
EXTENDS Integers, Sequences, FiniteSets, TLC

\* ------------------------------------------------------------------ bounds
MaxDim == 2
MaxHeadDim == 2
MaxHeads == 2
MaxBatch == 1
MaxSeq == 2
MaxSeed == 1

\* ------------------------------------------------------------- rationals
Abs(n) == IF n < 0 THEN 0 - n ELSE n

RECURSIVE Gcd(_, _)
Gcd(a, b) == IF b = 0 THEN a ELSE Gcd(b, a % b)

Rat(n, d) ==
  LET g == Gcd(Abs(n), Abs(d))
      s == IF d < 0 THEN 0 - 1 ELSE 1
  IN  <<(s * n) \div g, (s * d) \div g>>

Int2R(n) == <<n, 1>>
Zero == <<0, 1>>
One == <<1, 1>>

RAdd(p, q) ==
  LET g == Gcd(p[2], q[2])
      l == (p[2] \div g) * q[2]
  IN  Rat(p[1] * (l \div p[2]) + q[1] * (l \div q[2]), l)

RNeg(p) == <<0 - p[1], p[2]>>
RSub(p, q) == RAdd(p, RNeg(q))

RMul(p, q) ==
  LET g1 == Gcd(Abs(p[1]), q[2])
      g2 == Gcd(Abs(q[1]), p[2])
  IN  Rat((p[1] \div g1) * (q[1] \div g2), (p[2] \div g2) * (q[2] \div g1))

\* p / q for q # 0
RDiv(p, q) == RMul(p, Rat(q[2], q[1]))

RLe(p, q) == RSub(p, q)[1] <= 0
RMax(p, q) == IF RLe(p, q) THEN q ELSE p

RECURSIVE RSum(_)
RSum(s) == IF s = <<>> THEN Zero ELSE RAdd(Head(s), RSum(Tail(s)))

RECURSIVE RMaxSeq(_)
RMaxSeq(s) == IF Len(s) = 1 THEN s[1] ELSE RMax(Head(s), RMaxSeq(Tail(s)))

RECURSIVE Pow2(_)
Pow2(n) == IF n = 0 THEN 1 ELSE 2 * Pow2(n - 1)

\* jnp.exp on an entry of the scaled scores (an integer count of units of
\* 1/sqrt(rad)): two to the power of the entry.
Exp(p) == IF p[1] <= 0 THEN <<1, Pow2(0 - p[1])>> ELSE <<Pow2(p[1]), 1>>

\* ---------------------------------------------------------------- shapes
RECURSIVE Prod(_)
Prod(s) == IF s = <<>> THEN 1 ELSE Head(s) * Prod(Tail(s))

Last(s) == s[Len(s)]
Front(s) == SubSeq(s, 1, Len(s) - 1)

\* The multi-index (0-based, one per axis) of the 0-based flat offset n.
RECURSIVE Unravel(_, _)
Unravel(n, shape) ==
  IF shape = <<>> THEN <<>>
  ELSE LET inner == Prod(Tail(shape))
       IN  <<n \div inner>> \o Unravel(n % inner, Tail(shape))

\* The 0-based flat offset of the multi-index idx.
RECURSIVE Ravel(_, _)
Ravel(idx, shape) ==
  IF shape = <<>> THEN 0
  ELSE Head(idx) * Prod(Tail(shape)) + Ravel(Tail(idx), Tail(shape))

\* --------------------------------------------------------------- tensors
Raised == [ok |-> FALSE, shape |-> <<>>, data |-> <<>>, rad |-> 1]

\* A tensor of the given shape: its buffer is the sequence of the first
\* Prod(shape) values of data.
Tensor(shape, data) ==
  [ok |-> TRUE, shape |-> shape, data |-> SubSeq(data, 1, Prod(shape)),
   rad |-> 1]

Size(t) == Prod(t.shape)

\* A faulty projection that accepts any last dimension: the entries of x
\* beyond the kernel's input_dim are dropped, the missing ones read as zero.
DenseUnchecked(layer, x) ==
  IF ~x.ok THEN Raised
  ELSE LET in   == layer.kernel.shape[1]
           out  == layer.kernel.shape[2]
           last == Last(x.shape)
       IN  Tensor(Front(x.shape) \o <<out>>,
             [n \in 1..(Prod(Front(x.shape)) * out) |->
                RAdd(RSum([i \in 1..in |->
                       IF i > last THEN Zero
                       ELSE RMul(x.data[((n - 1) \div out) * last + i],
                                 layer.kernel.data[(i - 1) * out
                                                     + ((n - 1) % out) + 1])]),
                     layer.bias.data[((n - 1) % out) + 1])])

\* A faulty projection: x @ kernel, the bias left out.
DenseNoBias(layer, x) ==
  IF ~x.ok THEN Raised
  ELSE LET in   == layer.kernel.shape[1]
           out  == layer.kernel.shape[2]
       IN  IF Last(x.shape) # in THEN Raised
           ELSE Tensor(Front(x.shape) \o <<out>>,
                  [n \in 1..((Prod(x.shape) \div in) * out) |->
                     RSum([i \in 1..in |->
                       RMul(x.data[((n - 1) \div out) * in + i],
                            layer.kernel.data[(i - 1) * out
                                                + ((n - 1) % out) + 1])])])

\* nn.Dense applied with existing parameters: x @ kernel + bias over the last
\* axis of x, the bias broadcast over the leading axes.  Flax rejects an
\* input whose last dimension is not the kernel's input_dim.
Dense(layer, x) ==
  IF ~x.ok THEN Raised
  ELSE LET in   == layer.kernel.shape[1]
           out  == layer.kernel.shape[2]
       IN  IF Last(x.shape) # in THEN Raised
           ELSE LET rows == Size(x) \div in
                IN  Tensor(Front(x.shape) \o <<out>>,
                      [n \in 1..(rows * out) |->
                         LET r == (n - 1) \div out
                             o == (n - 1) % out
                         IN  RAdd(RSum([i \in 1..in |->
                                     RMul(x.data[r * in + i],
                                          layer.kernel.data[(i - 1) * out + o + 1])]),
                                  layer.bias.data[o + 1])])

\* ndarray.reshape(newshape): the flat buffer is kept; one dimension may be
\* given as -1 and is then inferred from the size.
Reshape(t, newshape) ==
  IF ~t.ok THEN Raised
  ELSE LET unknown == {a \in 1..Len(newshape) : newshape[a] = 0 - 1}
           bad     == {a \in 1..Len(newshape) : newshape[a] < 0 - 1}
       IN  IF bad # {} \/ Cardinality(unknown) > 1 THEN Raised
           ELSE IF unknown = {}
                THEN IF Prod(newshape) # Size(t) THEN Raised
                     ELSE [t EXCEPT !.shape = newshape]
                ELSE LET a     == CHOOSE u \in unknown : TRUE
                         known == 0 - Prod(newshape)
                     IN  IF known = 0 THEN Raised
                         ELSE IF Size(t) % known # 0 THEN Raised
                         ELSE [t EXCEPT !.shape =
                                 [newshape EXCEPT ![a] = Size(t) \div known]]

\* ndarray.transpose(axes): axes is the 0-based permutation of the code;
\* axis a of the result is axis axes[a] of t.
Transpose(t, axes) ==
  IF ~t.ok THEN Raised
  ELSE IF Len(axes) # Len(t.shape) THEN Raised
  ELSE LET rank  == Len(axes)
           shape == [a \in 1..rank |-> t.shape[axes[a] + 1]]
       IN  [t EXCEPT
             !.shape = shape,
             !.data = SubSeq([n \in 1..Prod(shape) |->
                LET idx == Unravel(n - 1, shape)
                    src == [b \in 1..rank |->
                              idx[CHOOSE a \in 1..rank : axes[a] + 1 = b]]
                IN  t.data[Ravel(src, t.shape) + 1]], 1, Prod(shape))]

\* jnp.matmul on tensors with equal leading (batch) axes: the last two axes
\* are multiplied as matrices, (.., n, m) @ (.., m, p) -> (.., n, p).
MatMul(a, b) ==
  IF ~a.ok \/ ~b.ok THEN Raised
  ELSE LET ra == Len(a.shape)
           rb == Len(b.shape)
       IN  IF ra < 2 \/ ra # rb THEN Raised
           ELSE LET n == a.shape[ra - 1]
                    m == a.shape[ra]
                    p == b.shape[rb]
                    lead == SubSeq(a.shape, 1, ra - 2)
                IN  IF lead # SubSeq(b.shape, 1, rb - 2) \/ b.shape[rb - 1] # m
                    THEN Raised
                    ELSE Tensor(lead \o <<n, p>>,
                           [e \in 1..(Prod(lead) * n * p) |->
                              LET s == (e - 1) \div (n * p)
                                  i == ((e - 1) % (n * p)) \div p
                                  j == (e - 1) % p
                              IN  RSum([c \in 1..m |->
                                    RMul(a.data[s * n * m + i * m + c],
                                         b.data[s * m * p + (c - 1) * p + j + 1])])])

\* t / jnp.sqrt(d) for d > 0: the entries now count units of 1/sqrt(d).
DivSqrt(t, d) ==
  IF ~t.ok THEN Raised ELSE [t EXCEPT !.rad = t.rad * d]

\* A faulty softmax: the shifted exponentials, never divided by their sum.
SoftmaxUnnormalized(t) ==
  IF ~t.ok THEN Raised
  ELSE LET len == Last(t.shape)
           row(r) == SubSeq(t.data, r * len + 1, r * len + len)
       IN  Tensor(t.shape,
             [n \in 1..Size(t) |->
                Exp(RSub(t.data[n], RMaxSeq(row((n - 1) \div len))))])

\* A faulty softmax: all the weight of a row on its first largest entry.
SoftmaxHard(t) ==
  IF ~t.ok THEN Raised
  ELSE LET len == Last(t.shape)
           row(r) == SubSeq(t.data, r * len + 1, r * len + len)
           first(r) == CHOOSE j \in 1..len :
                         /\ row(r)[j] = RMaxSeq(row(r))
                         /\ \A i \in 1..(j - 1) : row(r)[i] # RMaxSeq(row(r))
       IN  Tensor(t.shape,
             [n \in 1..Size(t) |->
                IF ((n - 1) % len) + 1 = first((n - 1) \div len)
                THEN One ELSE Zero])

\* A faulty softmax: the exponentials divided by their sum over all rows.
SoftmaxAcrossRows(t) ==
  IF ~t.ok THEN Raised
  ELSE LET len == Last(t.shape)
           row(r) == SubSeq(t.data, r * len + 1, r * len + len)
       IN  Tensor(t.shape,
             [n \in 1..Size(t) |->
                RDiv(Exp(RSub(t.data[n], RMaxSeq(row((n - 1) \div len)))),
                     RSum([m \in 1..Size(t) |->
                        Exp(RSub(t.data[m],
                                 RMaxSeq(row((m - 1) \div len))))]))])

\* A faulty shift: the entries of the row as they are.
ShiftNone(row) == row

\* x - x_max of nn.softmax for one row: the arguments of the exponential.
Shift(row) == [j \in 1..Len(row) |-> RSub(row[j], RMaxSeq(row))]

\* jnp.exp over a row.
ExpAll(args) == [j \in 1..Len(args) |-> Exp(args[j])]

\* nn.softmax(t, axis=-1): per row of the last axis, the exponential of the
\* entry minus the row maximum, divided by the sum of the row's exponentials.
Softmax(t) ==
  IF ~t.ok THEN Raised
  ELSE LET len  == Last(t.shape)
           rows == IF len = 0 THEN 0 ELSE Size(t) \div len
           row(r) == SubSeq(t.data, r * len + 1, r * len + len)
           unnormalized == [r \in 1..rows |-> ExpAll(Shift(row(r - 1)))]
           total == [r \in 1..rows |-> RSum(unnormalized[r])]
       IN  Tensor(t.shape,
             [n \in 1..(rows * len) |->
                LET r == ((n - 1) \div len) + 1
                    j == ((n - 1) % len) + 1
                IN  RDiv(unnormalized[r][j], total[r])])

\* ------------------------------------------------------- random tensors
\* A draw of jax.random keyed by key (and, per layer, by salt) for the n-th
\* entry of a buffer: a pseudo-random value in {-1, 0, 1}.
Rand(key, salt, n) ==
  <<0, 1, 0, 0 - 1, 0, 1, 0>>[
     ((key * 5 + salt * 3 + n * (salt + 2) + n * n * (key + 1)) % 7) + 1]

\* jax.random.normal(key, shape)
Normal(key, shape) ==
  Tensor(shape, [n \in 1..Prod(shape) |-> Int2R(Rand(key, 0, n))])

\* jnp.ones(shape)
Ones(shape) == Tensor(shape, [n \in 1..Prod(shape) |-> One])

\* nn.Dense during model.init: the parameters are created from the last
\* dimension of the example input and the layer's features; the initializer
\* raises for a kernel with a dimension <= 0.  Kernel and bias are drawn
\* from the key.
NoDense == [ok |-> FALSE, kernel |-> Raised, bias |-> Raised]

DenseInit(key, salt, features, x) ==
  IF ~x.ok THEN NoDense
  ELSE LET din == Last(x.shape)
       IN  IF din <= 0 \/ features <= 0 THEN NoDense
           ELSE [ok     |-> TRUE,
                 kernel |-> Tensor(<<din, features>>,
                              [n \in 1..(din * features) |->
                                 Int2R(Rand(key, salt, n))]),
                 bias   |-> Tensor(<<features>>,
                              [n \in 1..features |->
                                 Int2R(Rand(key, salt + 4, n))])]

\* A layer called with its parameters; a layer whose creation raised has
\* already aborted the call.
Apply(layer, x) == IF ~layer.ok THEN Raised ELSE Dense(layer, x)

\* ------------------------------------------------------- SelfAttention
\* SelfAttention.__call__, statement by statement.  Each step adds the
\* tensor it computes to the record c of the call's tensors.
SelfProject(params, x) ==
  [q |-> Apply(params.query, x),
   k |-> Apply(params.key, x),
   v |-> Apply(params.value, x)]

\* A faulty scoring: the queries against the values.
SelfScoresValues(self, c) ==
  c @@ [scores |-> DivSqrt(MatMul(c.q, Transpose(c.v, <<0, 2, 1>>)),
                           self.head_dim)]

SelfScores(self, c) ==
  c @@ [scores |-> DivSqrt(MatMul(c.q, Transpose(c.k, <<0, 2, 1>>)),
                           self.head_dim)]

\* A faulty softmax step with a positional bias: the score of the first key
\* position is raised by one.
AttnWeightsFirstKey(c) ==
  c @@ [attn_weights |->
          Softmax([c.scores EXCEPT !.data =
             [n \in 1..Len(@) |->
                IF (n - 1) % Last(c.scores.shape) = 0
                THEN RAdd(@[n], One) ELSE @[n]]])]

AttnWeights(c) == c @@ [attn_weights |-> Softmax(c.scores)]

\* A faulty aggregation: by the transposed weights, not the returned ones.
SelfOutputTransposed(c) ==
  c @@ [output |-> MatMul(Transpose(c.attn_weights, <<0, 2, 1>>), c.v)]

SelfOutput(c) == c @@ [output |-> MatMul(c.attn_weights, c.v)]

SelfAttentionCall(self, params, x) ==
  SelfOutput(AttnWeights(SelfScores(self, SelfProject(params, x))))

\* SelfAttention.setup as run by model.init on the example input.
SelfAttentionSetup(self, key, x) ==
  [query |-> DenseInit(key, 1, self.head_dim, x),
   key   |-> DenseInit(key, 2, self.head_dim, x),
   value |-> DenseInit(key, 3, self.head_dim, x)]

\* --------------------------------------------------- MultiHeadAttention
\* A faulty head split: the reshape without the transpose.
SplitHeadsNoTranspose(self, t, batch_size, seq_len) ==
  Reshape(t, <<batch_size, seq_len, self.num_heads, self.head_dim>>)

\* A faulty head split: reshaped straight to (batch, heads, seq, head_dim).
SplitHeadsDirect(self, t, batch_size, seq_len) ==
  Reshape(t, <<batch_size, self.num_heads, seq_len, self.head_dim>>)

\* The head split of one projection: reshape to (batch, seq, heads, head_dim)
\* and move the head axis next to the batch axis.
SplitHeads(self, t, batch_size, seq_len) ==
  Transpose(Reshape(t, <<batch_size, seq_len, self.num_heads, self.head_dim>>),
            <<0, 2, 1, 3>>)

\* MultiHeadAttention.__call__, statement by statement.
MultiProject(self, params, x) ==
  [q |-> SplitHeads(self, Apply(params.query, x), x.shape[1], x.shape[2]),
   k |-> SplitHeads(self, Apply(params.key, x), x.shape[1], x.shape[2]),
   v |-> SplitHeads(self, Apply(params.value, x), x.shape[1], x.shape[2])]

\* A faulty scaling: by the width of all heads together.
MultiScoresAllHeads(self, c) ==
  c @@ [scores |-> DivSqrt(MatMul(c.q, Transpose(c.k, <<0, 1, 3, 2>>)),
                           self.num_heads * self.head_dim)]

MultiScores(self, c) ==
  c @@ [scores |-> DivSqrt(MatMul(c.q, Transpose(c.k, <<0, 1, 3, 2>>)),
                           self.head_dim)]

\* A faulty aggregation: the values summed, not weighted.
MultiHeadsSummed(c) ==
  c @@ [heads |-> MatMul(Ones(c.attn_weights.shape), c.v)]

\* A faulty aggregation: of the keys, not of the values.
MultiHeadsKeys(c) == c @@ [heads |-> MatMul(c.attn_weights, c.k)]

\* attn_output = jnp.matmul(attn_weights, v), then the head merge.
MultiHeads(c) == c @@ [heads |-> MatMul(c.attn_weights, c.v)]

\* A faulty head merge: the reshape without the transpose.
MergeHeadsNoTranspose(c, x) ==
  c @@ [attn_output |-> Reshape(c.heads, <<x.shape[1], x.shape[2], 0 - 1>>)]

\* A faulty head merge: the features of each position in reverse order.
ReverseLast(t) ==
  IF ~t.ok THEN Raised
  ELSE [t EXCEPT !.data =
          SubSeq([n \in 1..Len(t.data) |->
                    t.data[n + Last(t.shape) - 1
                             - 2 * ((n - 1) % Last(t.shape))]],
                 1, Len(t.data))]

MergeHeadsReversed(c, x) ==
  c @@ [attn_output |->
          ReverseLast(Reshape(Transpose(c.heads, <<0, 2, 1, 3>>),
                              <<x.shape[1], x.shape[2], 0 - 1>>))]

MergeHeads(c, x) ==
  c @@ [attn_output |-> Reshape(Transpose(c.heads, <<0, 2, 1, 3>>),
                                <<x.shape[1], x.shape[2], 0 - 1>>)]

\* The call up to the tensor given to the final projection.
MultiHeadCore(self, params, x) ==
  MergeHeads(MultiHeads(AttnWeights(MultiScores(self,
               MultiProject(self, params, x)))), x)

\* A faulty last step: the merged heads returned without the projection.
MultiOutputNoProjection(params, c) == c @@ [output |-> c.attn_output]

MultiOutput(params, c) == c @@ [output |-> Apply(params.out, c.attn_output)]

MultiHeadAttentionCall(self, params, x) ==
  MultiOutput(params, MultiHeadCore(self, params, x))

\* MultiHeadAttention.setup as run by model.init on the example input: the
\* final projection's kernel takes its input_dim from the tensor it is
\* first called on.
MultiSetupOut(self, key, qkv, x) ==
  qkv @@ [out |-> DenseInit(key, 4, self.embed_dim,
                            MultiHeadCore(self, qkv, x).attn_output)]

\* A faulty setup: the three projections sized by embed_dim.
MultiHeadAttentionSetupEmbed(self, key, x) ==
  MultiSetupOut(self, key,
    [query |-> DenseInit(key, 1, self.embed_dim, x),
     key   |-> DenseInit(key, 2, self.embed_dim, x),
     value |-> DenseInit(key, 3, self.embed_dim, x)], x)

MultiHeadAttentionSetup(self, key, x) ==
  MultiSetupOut(self, key,
    [query |-> DenseInit(key, 1, self.num_heads * self.head_dim, x),
     key   |-> DenseInit(key, 2, self.num_heads * self.head_dim, x),
     value |-> DenseInit(key, 3, self.num_heads * self.head_dim, x)], x)

\* ---------------------------------------------------------------- state
VARIABLES
  pc,            \* "start" | "constructed" | "ready" | "calling" | "failed"
  kind,          \* "SelfAttention" | "MultiHeadAttention" ("none" before)
  embed_dim,     \* the module's fields
  num_heads,
  head_dim,
  params,        \* the parameters returned by model.init
  x,             \* the tensor passed to the last model.init / model.apply
  call,          \* "none" | "init" | "apply": the last call made
  status,        \* "none" | "ok" | "raised": how the last call ended
  output,        \* the tensors the last model.apply returned
  attn_weights,
  ref,           \* a result the caller kept, with its input
  since,         \* how the calls on other inputs ended after ref was kept
  again,         \* the last call ended after ref was kept, on ref's input
  frames         \* per concurrent caller, the frame of its __call__

vars == <<pc, kind, embed_dim, num_heads, head_dim, params, x, call, status,
          output, attn_weights, ref, since, again, frames>>

\* The fields of the module object, as self in the methods.
Self == [embed_dim |-> embed_dim, num_heads |-> num_heads, head_dim |-> head_dim]

\* rng = jax.random.PRNGKey(0)
rng == 0

NoTensor == Raised
NoParams == [query |-> NoDense, key |-> NoDense, value |-> NoDense]
NoRef == [kept |-> FALSE, x |-> NoTensor, output |-> NoTensor,
          attn_weights |-> NoTensor]

\* The callers that may run __call__ at the same time, and the frame of a
\* caller that is not in a call: x is the argument, c the local names bound
\* so far, done the statements run so far, output and attn_weights what the
\* call handed back.
Callers == {1, 2}

IdleFrame == [pc |-> "idle", x |-> NoTensor, c |-> <<>>, done |-> <<>>,
              output |-> NoTensor, attn_weights |-> NoTensor]

\* The values a caller may give a dimension field: no check is made.
FieldValues == (0 - 1)..MaxDim

\* The input tensors of the callers: rank 3, (batch, seq_len, dim).
Shapes == {<<b, s, d>> : b \in 1..MaxBatch, s \in 0..MaxSeq, d \in 1..MaxDim}
Inputs == {Ones(sh) : sh \in Shapes}
            \cup {Normal(k, sh) : k \in 0..MaxSeed, sh \in Shapes}

Init ==
  /\ pc = "start"
  /\ kind = "none"
  /\ embed_dim = 0
  /\ num_heads = 0
  /\ head_dim = 0
  /\ params = NoParams
  /\ x = NoTensor
  /\ call = "none"
  /\ status = "none"
  /\ output = NoTensor
  /\ attn_weights = NoTensor
  /\ ref = NoRef
  /\ since = {}
  /\ again = FALSE
  /\ frames = [i \in Callers |-> IdleFrame]

\* model = SelfAttention(embed_dim=e, head_dim=h): the dataclass constructor
\* stores the fields.
ConstructSelfAttention ==
  /\ pc = "start"
  /\ \E e \in FieldValues, h \in (0 - 1)..MaxHeadDim :
       /\ kind' = "SelfAttention"
       /\ embed_dim' = e
       /\ head_dim' = h
       /\ num_heads' = 1
  /\ pc' = "constructed"
  /\ UNCHANGED <<params, x, call, status, output, attn_weights, ref, since,
                 again, frames>>

\* model = MultiHeadAttention(embed_dim=e, num_heads=n, head_dim=h)
ConstructMultiHeadAttention ==
  /\ pc = "start"
  /\ \E e \in FieldValues, n \in (0 - 1)..MaxHeads, h \in (0 - 1)..MaxHeadDim :
       /\ kind' = "MultiHeadAttention"
       /\ embed_dim' = e
       /\ num_heads' = n
       /\ head_dim' = h
  /\ pc' = "constructed"
  /\ UNCHANGED <<params, x, call, status, output, attn_weights, ref, since,
                 again, frames>>

\* The module's setup and __call__ by kind.
Setup(k, self, key, t) ==
  IF k = "SelfAttention" THEN SelfAttentionSetup(self, key, t)
  ELSE MultiHeadAttentionSetup(self, key, t)

\* A faulty __call__ with hidden state: once a result has been handed out
\* and kept, it computes on a stale buffer of ones.
ForwardAfterKeep(k, self, p, t) ==
  IF k = "SelfAttention"
  THEN SelfAttentionCall(self, p, IF ref.kept THEN Ones(t.shape) ELSE t)
  ELSE MultiHeadAttentionCall(self, p, IF ref.kept THEN Ones(t.shape) ELSE t)

\* A faulty __call__ with hidden state: calls on other inputs leave a stale
\* buffer of ones behind, which later calls compute on.
ForwardAfterOthers(k, self, p, t) ==
  IF k = "SelfAttention"
  THEN SelfAttentionCall(self, p, IF since # {} THEN Ones(t.shape) ELSE t)
  ELSE MultiHeadAttentionCall(self, p, IF since # {} THEN Ones(t.shape) ELSE t)

Forward(k, self, p, t) ==
  IF k = "SelfAttention" THEN SelfAttentionCall(self, p, t)
  ELSE MultiHeadAttentionCall(self, p, t)

\* params = model.init(rng, jnp.ones(shape)): setup and __call__ run on the
\* example input ex; an exception ends the program without parameters.
InitEnds(p, r) ==
  IF r.output.ok
  THEN /\ params' = p
       /\ status' = "ok"
       /\ pc' = "ready"
  ELSE /\ params' = params
       /\ status' = "raised"
       /\ pc' = "failed"

InitRuns(ex, p) == InitEnds(p, Forward(kind, Self, p, ex))

ModelInit ==
  /\ pc = "constructed"
  /\ \E sh \in Shapes :
       /\ x' = Ones(sh)
       /\ InitRuns(Ones(sh), Setup(kind, Self, rng, Ones(sh)))
  /\ call' = "init"
  /\ UNCHANGED <<kind, embed_dim, num_heads, head_dim, output, attn_weights,
                 ref, since, again, frames>>

\* output, attn_weights = model.apply(params, x): the caller passes a tensor.
ModelApply ==
  /\ pc = "ready"
  /\ \E t \in Inputs : x' = t
  /\ pc' = "calling"
  /\ call' = "apply"
  /\ status' = "none"
  /\ output' = NoTensor
  /\ attn_weights' = NoTensor
  /\ UNCHANGED <<kind, embed_dim, num_heads, head_dim, params, ref, since,
                 again, frames>>

\* What the caller has seen since it kept ref, once the call on x ended st.
Seen(st) ==
  IF ref.kept /\ x # ref.x THEN since \cup {st} ELSE since

\* __call__ runs to its return statement, or raises.
CallEnds(r) ==
  IF r.output.ok
  THEN /\ status' = "ok"
       /\ output' = r.output
       /\ attn_weights' = r.attn_weights
       /\ since' = Seen("ok")
  ELSE /\ status' = "raised"
       /\ output' = NoTensor
       /\ attn_weights' = NoTensor
       /\ since' = Seen("raised")

\* A faulty call that writes into the parameters it was given.
ReturnWritingParams ==
  /\ pc = "calling"
  /\ CallEnds(Forward(kind, Self, params, x))
  /\ pc' = "ready"
  /\ again' = (ref.kept /\ x = ref.x)
  /\ params' = [params EXCEPT !.value = params.query]
  /\ UNCHANGED <<kind, embed_dim, num_heads, head_dim, x, call, ref,
                 frames>>

Return ==
  /\ pc = "calling"
  /\ CallEnds(Forward(kind, Self, params, x))
  /\ pc' = "ready"
  /\ again' = (ref.kept /\ x = ref.x)
  /\ UNCHANGED <<kind, embed_dim, num_heads, head_dim, params, x, call, ref,
                 frames>>

\* x = jax.random.normal(rng, shape): the notebook's sample input, here of
\* the largest shape the parameters accept.
SampleInput == Normal(rng, <<MaxBatch, MaxSeq, params.query.kernel.shape[1]>>)

\* The caller keeps the result of the call on the sample input.
Keep ==
  /\ pc = "ready"
  /\ call = "apply"
  /\ status = "ok"
  /\ ~ref.kept
  /\ x = SampleInput
  /\ ref' = [kept |-> TRUE, x |-> x, output |-> output,
             attn_weights |-> attn_weights]
  /\ UNCHANGED <<pc, kind, embed_dim, num_heads, head_dim, params, x, call,
                 status, output, attn_weights, since, again, frames>>

Next ==
  \/ ConstructSelfAttention
  \/ ConstructMultiHeadAttention
  \/ ModelInit
  \/ ModelApply
  \/ Return

Spec == Init /\ [][Next]_vars

\* The same program with a caller that keeps a result to compare later
\* results with.
NextKeep == Next \/ Keep

SpecKeep == Init /\ [][NextKeep]_vars

\* ------------------------------------------------ __call__ step by step
\* The same two methods run one statement at a time, by callers that share
\* the module and its parameters.  The statements of each __call__ in the
\* order of the source; the multi-head "scores" statement also scales.
SelfStepsSoftmaxFirst ==
  <<"query", "key", "value", "scores", "softmax", "scale", "output", "return">>

SelfSteps ==
  <<"query", "key", "value", "scores", "scale", "softmax", "output", "return">>

MultiSteps ==
  <<"query", "key", "value", "scores", "softmax", "heads", "merge", "out",
    "return">>

StepsOf(k) == IF k = "SelfAttention" THEN SelfSteps ELSE MultiSteps

\* The local name a statement binds.
Made(name) ==
  CASE name = "query" -> "q"
    [] name = "key" -> "k"
    [] name = "value" -> "v"
    [] name \in {"scores", "scale"} -> "scores"
    [] name = "softmax" -> "attn_weights"
    [] name = "heads" -> "heads"
    [] name = "merge" -> "attn_output"
    [] name \in {"out", "output"} -> "output"
    [] name = "return" -> "x"

\* One statement of SelfAttention.__call__ on the locals c.
SelfExec(name, self, p, c) ==
  CASE name = "query" -> c @@ [q |-> Apply(p.query, c.x)]
    [] name = "key" -> c @@ [k |-> Apply(p.key, c.x)]
    [] name = "value" -> c @@ [v |-> Apply(p.value, c.x)]
    [] name = "scores" ->
         c @@ [scores |-> MatMul(c.q, Transpose(c.k, <<0, 2, 1>>))]
    [] name = "scale" -> [c EXCEPT !.scores = DivSqrt(@, self.head_dim)]
    [] name = "softmax" -> AttnWeights(c)
    [] name = "output" -> SelfOutput(c)
    [] name = "return" -> c

\* One statement of MultiHeadAttention.__call__ on the locals c.
MultiExec(name, self, p, c) ==
  CASE name = "query" ->
         c @@ [q |-> SplitHeads(self, Apply(p.query, c.x),
                                c.x.shape[1], c.x.shape[2])]
    [] name = "key" ->
         c @@ [k |-> SplitHeads(self, Apply(p.key, c.x),
                                c.x.shape[1], c.x.shape[2])]
    [] name = "value" ->
         c @@ [v |-> SplitHeads(self, Apply(p.value, c.x),
                                c.x.shape[1], c.x.shape[2])]
    [] name = "scores" -> MultiScores(self, c)
    [] name = "softmax" -> AttnWeights(c)
    [] name = "heads" -> MultiHeads(c)
    [] name = "merge" -> MergeHeads(c, c.x)
    [] name = "out" -> MultiOutput(p, c)
    [] name = "return" -> c

Exec(name, k, self, p, c) ==
  IF k = "SelfAttention" THEN SelfExec(name, self, p, c)
  ELSE MultiExec(name, self, p, c)

\* The locals of a frame that is not running.
NoLocals == [x |-> NoTensor]

\* A faulty end of a statement: a call that raises still hands back the
\* attention weights it had computed.
LandedPartial(f, name, c2) ==
  IF ~c2[Made(name)].ok
  THEN [f EXCEPT !.pc = "raised", !.c = NoLocals, !.done = @ \o <<name>>,
                 !.attn_weights = IF "attn_weights" \in DOMAIN c2
                                  THEN c2.attn_weights ELSE NoTensor]
  ELSE IF name = "return"
  THEN [f EXCEPT !.pc = "returned", !.c = NoLocals, !.done = @ \o <<name>>,
                 !.output = c2.output, !.attn_weights = c2.attn_weights]
  ELSE [f EXCEPT !.c = c2, !.done = @ \o <<name>>]

\* The frame f after statement name left the locals c2: an exception ends
\* the call with nothing handed back, the return statement hands back the
\* two tensors, and in both cases the locals are gone.
Landed(f, name, c2) ==
  IF ~c2[Made(name)].ok
  THEN [f EXCEPT !.pc = "raised", !.c = NoLocals, !.done = @ \o <<name>>]
  ELSE IF name = "return"
  THEN [f EXCEPT !.pc = "returned", !.c = NoLocals, !.done = @ \o <<name>>,
                 !.output = c2.output, !.attn_weights = c2.attn_weights]
  ELSE [f EXCEPT !.c = c2, !.done = @ \o <<name>>]

NextStep(f) == StepsOf(kind)[Len(f.done) + 1]

\* A faulty module that keeps attn_weights in a buffer shared by its
\* callers: a frame continues with the weights another running frame holds.
Borrowed(f) ==
  LET others == {j \in Callers :
                   /\ frames[j] # f
                   /\ frames[j].pc = "running"
                   /\ "attn_weights" \in DOMAIN frames[j].c
                   /\ "attn_weights" \in DOMAIN f.c}
  IN  IF others = {} THEN f
      ELSE [f EXCEPT !.c.attn_weights =
              frames[CHOOSE j \in others : TRUE].c.attn_weights]

AdvanceShared(f) ==
  Landed(Borrowed(f), NextStep(f),
         Exec(NextStep(f), kind, Self, params, Borrowed(f).c))

\* The next statement of the frame f.
Advance(f) ==
  Landed(f, NextStep(f), Exec(NextStep(f), kind, Self, params, f.c))

\* The inputs of the concurrent callers: the sample input, a second input
\* of its shape, an empty sequence, and an input of another last dimension.
StepInputs ==
  {SampleInput, Ones(SampleInput.shape),
   Ones(<<MaxBatch, 0, params.query.kernel.shape[1]>>),
   Ones(<<MaxBatch, MaxSeq, params.query.kernel.shape[1] + 1>>)}

\* Caller i calls model.apply(params, t).
Begin(i) ==
  /\ pc = "ready"
  /\ frames[i].pc # "running"
  /\ \E t \in StepInputs :
       frames' = [frames EXCEPT ![i] =
                    [IdleFrame EXCEPT !.pc = "running", !.x = t,
                                      !.c = [x |-> t]]]
  /\ UNCHANGED <<pc, kind, embed_dim, num_heads, head_dim, params, x, call,
                 status, output, attn_weights, ref, since, again>>

\* A faulty scheduler: a caller's statement waits until no other caller is
\* in a call.
CanStepWaiting(i) ==
  /\ pc = "ready"
  /\ frames[i].pc = "running"
  /\ \A j \in Callers \ {i} : frames[j].pc # "running"

\* Caller i is inside __call__ and can run its next statement: no statement
\* waits for a lock, a message or another caller.
CanStep(i) ==
  /\ pc = "ready"
  /\ frames[i].pc = "running"

\* Caller i runs the next statement of its call.
Step(i) ==
  /\ CanStep(i)
  /\ frames' = [frames EXCEPT ![i] = Advance(frames[i])]
  /\ UNCHANGED <<pc, kind, embed_dim, num_heads, head_dim, params, x, call,
                 status, output, attn_weights, ref, since, again>>

NextSteps ==
  \/ ConstructSelfAttention
  \/ ConstructMultiHeadAttention
  \/ ModelInit
  \/ \E i \in Callers : Begin(i)
  \/ \E i \in Callers : Step(i)

SpecSteps == Init /\ [][NextSteps]_vars

\* Each caller's interpreter keeps running its statements: weak fairness of
\* Step(i), that is WF_vars(Step(i)) with ENABLED <<Step(i)>>_vars written
\* as its guard CanStep(i) (a statement always changes the caller's frame).
WeakFairness(i) == []<>(~CanStep(i)) \/ []<><<Step(i)>>_vars

SpecStepsFair == SpecSteps /\ \A i \in Callers : WeakFairness(i)

\* ------------------------------------------------------------ properties
\* A model.apply call has returned its two tensors / has been rejected.
Returned == pc = "ready" /\ call = "apply" /\ status = "ok"
Rejected == pc = "ready" /\ call = "apply" /\ status = "raised"

IsMulti == kind = "MultiHeadAttention"

\* The rows of the last axis of t, for a last axis that is not empty.
RowsOf(t) ==
  [r \in 1..(Size(t) \div Last(t.shape)) |->
     SubSeq(t.data, (r - 1) * Last(t.shape) + 1, r * Last(t.shape))]

\* C1: in the attention weights returned by a call, of SelfAttention and of
\* MultiHeadAttention, every row (fixed batch, head and query position) sums
\* to 1 and every entry is at least 0 and at most 1.
C1_RowsSumToOne ==
  Returned =>
    /\ \A n \in 1..Len(attn_weights.data) :
         RLe(Zero, attn_weights.data[n]) /\ RLe(attn_weights.data[n], One)
    /\ Last(attn_weights.shape) > 0 =>
         \A r \in DOMAIN RowsOf(attn_weights) :
           RSum(RowsOf(attn_weights)[r]) = One

\* C1 is exercised: two heads over two positions returned rows that are not
\* uniform.
C1_Witness ==
  /\ Returned
  /\ IsMulti
  /\ num_heads = 2
  /\ x.shape[2] = 2
  /\ \E n \in 1..Len(attn_weights.data) :
       attn_weights.data[n] \notin {Zero, One, <<1, 2>>}

\* C2: the output returned for an input of shape (batch, seq, dim) has shape
\* (batch, seq, embed_dim) for MultiHeadAttention and (batch, seq, head_dim)
\* for SelfAttention.
C2_OutputShape ==
  Returned =>
    output.shape = <<x.shape[1], x.shape[2],
                     IF IsMulti THEN embed_dim ELSE head_dim>>

\* C2 is exercised: a multi-head output whose width embed_dim is not the
\* width of the merged heads.
C2_Witness ==
  /\ Returned
  /\ IsMulti
  /\ num_heads * head_dim # embed_dim
  /\ Size(output) > 0

\* C3: the attention weights returned have shape (batch, seq, seq) for
\* SelfAttention and (batch, num_heads, seq, seq) for MultiHeadAttention:
\* all heads, unreduced, with query and key length both the input's seq.
C3_AttnWeightsShape ==
  Returned =>
    attn_weights.shape =
      IF IsMulti THEN <<x.shape[1], num_heads, x.shape[2], x.shape[2]>>
      ELSE <<x.shape[1], x.shape[2], x.shape[2]>>

\* C3 is exercised: more heads than positions, so the head axis and the
\* position axes cannot be confused.
C3_Witness ==
  /\ Returned
  /\ IsMulti
  /\ num_heads = 2
  /\ x.shape[2] = 1
  /\ Len(attn_weights.data) = 2

\* C4: a module with a non-positive embed_dim, head_dim or num_heads is
\* rejected when it is constructed, so no call ever returns from a module
\* whose embed_dim, head_dim or num_heads is <= 0.
C4_NoCallOnNonPositiveConfig ==
  (call = "apply" /\ status = "ok") =>
    (embed_dim > 0 /\ head_dim > 0 /\ num_heads > 0)

\* C5: a call whose input's last dimension differs from the module's
\* embed_dim is rejected and returns nothing.
C5_InputDimIsEmbedDim ==
  (pc = "ready" /\ call = "apply" /\ Last(x.shape) # embed_dim) =>
    (status = "raised" /\ ~output.ok /\ ~attn_weights.ok)

\* C6: a call on an input with seq_len = 0, its last dimension the one the
\* parameters were made for, does not raise: it returns an empty output and
\* empty attention weights, in SelfAttention and in MultiHeadAttention.
C6_EmptySequenceReturnsEmpty ==
  (/\ pc = "ready"
   /\ call = "apply"
   /\ x.shape[2] = 0
   /\ Last(x.shape) = params.query.kernel.shape[1]) =>
    (/\ status = "ok"
     /\ output.shape[2] = 0
     /\ output.data = <<>>
     /\ attn_weights.data = <<>>)

PositiveConfig == embed_dim > 0 /\ head_dim > 0 /\ num_heads > 0

\* C7: MultiHeadAttention allows num_heads * head_dim to differ from
\* embed_dim: every positive configuration is set up by model.init on a
\* non-empty example, the query, key and value projections have output width
\* num_heads * head_dim, the final projection takes inputs of exactly that
\* width and the output has last dimension embed_dim.
C7_WidthsMayDiffer ==
  IsMulti =>
    /\ (pc = "failed" /\ PositiveConfig) => x.shape[2] = 0
    /\ pc \in {"ready", "calling"} =>
         /\ \A l \in {"query", "key", "value"} :
              params[l].kernel.shape[2] = num_heads * head_dim
         /\ params.out.kernel.shape = <<num_heads * head_dim, embed_dim>>
    /\ Returned => Last(output.shape) = embed_dim

\* C7 is exercised: a call returned from a module whose merged heads are
\* wider than embed_dim.
C7_Witness ==
  /\ Returned
  /\ IsMulti
  /\ num_heads * head_dim > embed_dim
  /\ params.out.kernel.shape[1] > params.out.kernel.shape[2]
  /\ x.shape[2] = MaxSeq

\* The call that just ended was made on the input of the kept result.
CalledAgain == pc = "ready" /\ ref.kept /\ again

SameAsKept ==
  /\ status = "ok"
  /\ output = ref.output
  /\ attn_weights = ref.attn_weights

C9_NoSideEffects ==
  [][/\ pc \in {"ready", "calling"} =>
          /\ params' = params
          /\ <<kind, embed_dim, num_heads, head_dim>>' =
               <<kind, embed_dim, num_heads, head_dim>>
     /\ pc = "calling" => x' = x]_vars

\* C9 is exercised: a call was rejected and the parameters are still the
\* ones model.init made on its example.
C9_Witness ==
  /\ Rejected
  /\ params = Setup(kind, Self, rng, Ones(<<1, 1, params.query.kernel.shape[1]>>))

Alone(f) == Forward(kind, Self, params, f.x)

SameAsAlone(f, r) ==
  /\ f.pc = "returned" =>
       (f.output = r.output /\ f.attn_weights = r.attn_weights)
  /\ f.pc = "raised" => ~r.output.ok

\* C11: calls may run at the same time on the same parameters without a
\* lock: under every interleaving of their statements each call returns, or
\* raises, exactly as it does when run alone, and a statement of one call
\* changes nothing of another call's frame.
C11_ConcurrentCallsAsAlone ==
  /\ [](\A i \in Callers : SameAsAlone(frames[i], Alone(frames[i])))
  /\ [][\A i \in Callers :
          frames'[i] # frames[i] =>
            \A j \in Callers \ {i} : frames'[j] = frames[j]]_vars

\* C11 is exercised: one call has returned while another, on a different
\* input of the same shape, holds its own attention weights and is still
\* running.
C11_Witness ==
  /\ frames[1].pc = "returned"
  /\ frames[2].pc = "running"
  /\ "attn_weights" \in DOMAIN frames[2].c
  /\ frames[1].x # frames[2].x
  /\ frames[1].x.shape = frames[2].x.shape
  /\ frames[1].attn_weights # frames[2].c.attn_weights

\* C12: error atomicity: a call that raises at any statement is aborted as a
\* whole and hands back neither an output nor attention weights (a frame
\* never holds attention weights without an output), and a call is only ever
\* rejected for its input, not for the module's configuration.
C12_ErrorAtomicity ==
  \A i \in Callers :
    /\ frames[i].attn_weights.ok <=> frames[i].output.ok
    /\ frames[i].pc = "raised" =>
         /\ ~frames[i].output.ok
         /\ ~frames[i].attn_weights.ok
         /\ frames[i].c = NoLocals
         /\ \/ Last(frames[i].x.shape) # params.query.kernel.shape[1]
            \/ frames[i].x.shape[2] = 0

\* C12 is exercised: a multi-head call raised at the head merge, after its
\* softmax statement had bound attn_weights.
C12_Witness ==
  /\ IsMulti
  /\ frames[1].pc = "raised"
  /\ frames[1].done =
       <<"query", "key", "value", "scores", "softmax", "heads", "merge">>

\* The locals of the call that just returned, recomputed from its arguments.
Locals == Forward(kind, Self, params, x)

AllEqual(row) == \A j \in 1..Len(row) : row[j] = row[1]

\* Every row of scores whose entries are all equal has the weight 1/len in
\* each cell of the same row of weights.
UniformWhereEqual(scores, weights, len) ==
  \A r \in DOMAIN scores :
    AllEqual(scores[r]) => \A j \in 1..len : weights[r][j] = Rat(1, len)

\* C13: every row of the score matrix Q.K^T whose entries are all equal
\* gives a uniform row of returned attention weights, 1/seq_len in every
\* cell, in SelfAttention and in each head of MultiHeadAttention.
C13_UniformRows ==
  (Returned /\ x.shape[2] > 0) =>
    UniformWhereEqual(RowsOf(Locals.scores), RowsOf(attn_weights), x.shape[2])

\* Among the rows of scores one has equal entries that are not 0 and another
\* has entries that differ.
MixedRows(scores) ==
  /\ \E r \in DOMAIN scores : AllEqual(scores[r]) /\ scores[r][1] # Zero
  /\ \E r \in DOMAIN scores : ~AllEqual(scores[r])

\* C13 is exercised: among the rows of a returned multi-head call over two
\* positions, one has two equal scores that are not 0 and another has two
\* different scores.
C13_Witness ==
  /\ Returned
  /\ IsMulti
  /\ x.shape[2] = 2
  /\ MixedRows(RowsOf(Locals.scores))

\* The permutations of the head indices 1..n.
Perms(n) == {f \in [1..n -> 1..n] : \A a, b \in 1..n : f[a] = f[b] => a = b}

\* Block h of the result is block perm[h] of the original: the column
\* blocks of a (rows, heads * width) kernel, the blocks of a bias and the row
\* blocks of a (heads * width, cols) kernel.
PermuteColumns(t, perm, width) ==
  [t EXCEPT !.data =
     [n \in 1..Len(t.data) |->
        LET col == (n - 1) % Last(t.shape)
        IN  t.data[n - col + (perm[(col \div width) + 1] - 1) * width
                     + (col % width)]]]

PermuteRows(t, perm, width) ==
  [t EXCEPT !.data =
     [n \in 1..Len(t.data) |->
        LET row == (n - 1) \div Last(t.shape)
        IN  t.data[((perm[(row \div width) + 1] - 1) * width + (row % width))
                     * Last(t.shape) + ((n - 1) % Last(t.shape)) + 1]]]

PermuteLayer(layer, perm, width) ==
  [layer EXCEPT !.kernel = PermuteColumns(@, perm, width),
                !.bias = PermuteColumns(@, perm, width)]

PermuteHeads(p, perm, width) ==
  [query |-> PermuteLayer(p.query, perm, width),
   key   |-> PermuteLayer(p.key, perm, width),
   value |-> PermuteLayer(p.value, perm, width),
   out   |-> [p.out EXCEPT !.kernel = PermuteRows(@, perm, width)]]

\* Head h of the result is head perm[h] of the (batch, heads, seq, seq)
\* tensor t.
PermuteHeadAxis(t, perm) ==
  [t EXCEPT !.data =
     [n \in 1..Len(t.data) |->
        LET idx == Unravel(n - 1, t.shape)
        IN  t.data[Ravel([idx EXCEPT ![2] = perm[idx[2] + 1] - 1], t.shape)
                     + 1]]]

SameUnderPermutation(r, perm) ==
  /\ r.output = output
  /\ r.attn_weights = PermuteHeadAxis(attn_weights, perm)

\* C14: head independence: for every permutation of the heads, permuting
\* the per-head column blocks of the query, key and value kernels and biases
\* and the matching row blocks of the out kernel leaves the output of
\* MultiHeadAttention unchanged and permutes the head axis of the returned
\* attention weights in the same way.
C14_HeadIndependence ==
  (Returned /\ IsMulti) =>
    \A perm \in Perms(num_heads) :
      SameUnderPermutation(
        Forward(kind, Self, PermuteHeads(params, perm, head_dim), x), perm)

\* C14 is exercised: two heads of width 2 over two positions whose attention
\* weights differ, so that swapping them is visible.
C14_Witness ==
  /\ Returned
  /\ IsMulti
  /\ num_heads = 2
  /\ head_dim = 2
  /\ x.shape[2] = 2
  /\ PermuteHeadAxis(attn_weights, <<2, 1>>).data # attn_weights.data
  /\ PermuteHeads(params, <<2, 1>>, head_dim) # params

\* The entry of tensor t at the 0-based index idx.
At(t, idx) == t.data[Ravel(idx, t.shape) + 1]

\* The Linear Projections of the last call, each as <<layer, input, result>>:
\* query, key and value on x and, in MultiHeadAttention, out on the merged
\* heads, whose result is the returned output.
Projections(c) ==
  IF IsMulti
  THEN {<<params.query, x, Apply(params.query, x)>>,
        <<params.key, x, Apply(params.key, x)>>,
        <<params.value, x, Apply(params.value, x)>>,
        <<params.out, c.attn_output, output>>}
  ELSE {<<params.query, x, c.q>>, <<params.key, x, c.k>>,
        <<params.value, x, c.v>>}

\* result is input @ W + b, entry by entry.
IsProjection(layer, input, result) ==
  /\ result.ok
  /\ result.shape = Front(input.shape) \o <<layer.kernel.shape[2]>>
  /\ Len(result.data) = Prod(result.shape)
  /\ \A n \in 1..Len(result.data) :
       LET idx == Unravel(n - 1, result.shape)
           o   == idx[Len(idx)]
       IN  result.data[n] =
             RAdd(RSum([i \in 1..layer.kernel.shape[1] |->
                    RMul(At(input, [idx EXCEPT ![Len(idx)] = i - 1]),
                         At(layer.kernel, <<i - 1, o>>))]),
                  layer.bias.data[o + 1])

\* C15: a Linear Projection computes input @ W + b with the bias broadcast
\* over the leading dimensions: every projection of a returned call has the
\* leading dimensions of its input, last dimension output_dim, and entries
\* output[..., o] = sum over i of input[..., i] * W[i, o] + b[o].
C15_LinearProjection ==
  Returned =>
    \A pr \in Projections(Locals) : IsProjection(pr[1], pr[2], pr[3])

\* C15 is exercised: a call returned whose query projection maps two
\* positions of width 2 to width 2 with a bias that is not zero and rows
\* that differ.
C15_Witness ==
  /\ Returned
  /\ ~IsMulti
  /\ x.shape = <<1, 2, 2>>
  /\ head_dim = 2
  /\ params.query.bias.data # <<Zero, Zero>>
  /\ params.query.kernel.data # <<Zero, Zero, Zero, Zero>>
  /\ SubSeq(Locals.q.data, 1, 2) # SubSeq(Locals.q.data, 3, 4)

\* The input_dim of the weights: the first dimension of the query kernel.
InputDim == params.query.kernel.shape[1]

\* C16: applying a Linear Projection with weights of shape (input_dim,
\* output_dim) to a tensor whose last dimension is not input_dim is an
\* error.  The weights made by model.init have the trailing dimension of
\* the example input as input_dim, and a forward call on an input with
\* another trailing dimension is rejected: it returns no output and no
\* attention weights.
C16_MismatchedInputRejected ==
  /\ (pc = "ready" /\ call = "init") => InputDim = Last(x.shape)
  /\ (pc = "ready") =>
       \A name \in {"query", "key", "value"} : \A t \in Inputs :
         Last(t.shape) # params[name].kernel.shape[1] =>
           ~Apply(params[name], t).ok
  /\ (pc = "ready" /\ call = "apply" /\ Last(x.shape) # InputDim) =>
       (status = "raised" /\ ~output.ok /\ ~attn_weights.ok)

\* C16 is exercised: a call of a module with positive dimensions on a
\* non-empty input wider than the example input was rejected.
C16_Witness ==
  /\ Rejected
  /\ x.shape[2] > 0
  /\ Last(x.shape) > InputDim
  /\ num_heads > 0
  /\ head_dim > 0

\* The call of a frame has ended: it returned its result or raised.
Ended(f) == f.pc \in {"returned", "raised"}

Precedes(done, a, b) ==
  \A n \in 1..Len(done) : done[n] = b => \E m \in 1..(n - 1) : done[m] = a

\* Every link of chain holds in done, and no statement ran twice.
InOrder(done, chain) ==
  /\ \A n \in 1..(Len(chain) - 1) : Precedes(done, chain[n], chain[n + 1])
  /\ \A n, m \in 1..Len(done) : done[n] = done[m] => n = m
  /\ \A n \in 1..Len(done) : \E m \in 1..Len(chain) : done[n] = chain[m]

\* The number of Linear Projections applied in the trace done.
ProjectionsIn(done) ==
  Cardinality({n \in 1..Len(done) :
                 done[n] \in {"query", "key", "value", "out"}})

RanSelfInOrder(f) ==
  /\ InOrder(f.done, <<"query", "key", "value", "scores", "scale", "softmax",
                       "output", "return">>)
  /\ f.pc = "returned" => ProjectionsIn(f.done) = 3

\* In MultiHeadAttention each of q, k, v is split into heads by the
\* statement that projects it, and the scores are scaled by the statement
\* that computes them.
RanMultiInOrder(f) ==
  /\ InOrder(f.done, <<"query", "key", "value", "scores", "softmax", "heads",
                       "merge", "out", "return">>)
  /\ f.pc = "returned" => ProjectionsIn(f.done) = 4
  /\ (f.pc = "running" /\ Len(f.done) >= 4) =>
       /\ \A t \in {f.c.q, f.c.k, f.c.v} :
            t.shape = <<f.x.shape[1], num_heads, f.x.shape[2], head_dim>>
       /\ f.c.scores.rad = head_dim
  /\ (f.pc = "running" /\ Len(f.done) = 7) =>
       /\ f.c.attn_output.shape =
            <<f.x.shape[1], f.x.shape[2], num_heads * head_dim>>
       /\ "output" \notin DOMAIN f.c

IsDotProduct(scores, q, k, idx) ==
  LET r == Len(idx)
  IN  At(scores, idx) =
        RSum([d \in 1..Last(q.shape) |->
                RMul(At(q, [idx EXCEPT ![r] = d - 1]),
                     At(k, [idx EXCEPT ![r - 1] = idx[r], ![r] = d - 1]))])

ScaledScores(c) ==
  /\ c.scores.ok
  /\ c.scores.rad = head_dim
  /\ Last(c.q.shape) = head_dim
  /\ \A n \in 1..Len(c.scores.data) :
       IsDotProduct(c.scores, c.q, c.k, Unravel(n - 1, c.scores.shape))
  /\ attn_weights = Softmax(c.scores)
  /\ attn_weights.rad = 1

\* C19: in every returned call, of SelfAttention and of MultiHeadAttention,
\* the tensor given to softmax holds at (.., i, j) the dot product of row i of
\* Q and row j of K divided by sqrt(head_dim), head_dim being the width of
\* one head; the returned weights are the softmax of that tensor and are not
\* divided again.
C19_ScaledBeforeSoftmax == Returned => ScaledScores(Locals)

\* C19 is exercised: two heads of width 2 in a module whose embed_dim is 1,
\* so that head_dim, num_heads * head_dim and embed_dim all differ, with
\* scores that are not all zero.
C19_Witness ==
  /\ Returned
  /\ IsMulti
  /\ num_heads = 2
  /\ head_dim = 2
  /\ embed_dim = 1
  /\ x.shape[2] = 2
  /\ \E n \in 1..Len(Locals.scores.data) : Locals.scores.data[n] # Zero

\* The entry of agg at index idx = (.., i, d) is the sum over j of
\* weights[.., i, j] * v[.., j, d].
IsWeightedSum(agg, weights, v, idx) ==
  LET r == Len(idx)
  IN  At(agg, idx) =
        RSum([j \in 1..Last(weights.shape) |->
                RMul(At(weights, [idx EXCEPT ![r] = j - 1]),
                     At(v, [idx EXCEPT ![r - 1] = j - 1]))])

\* agg is the aggregation of v by the returned attention weights.
AggregatedByReturnedWeights(agg, v) ==
  /\ agg.ok
  /\ agg.shape = Front(attn_weights.shape) \o <<Last(v.shape)>>
  /\ Len(agg.data) = Prod(agg.shape)
  /\ \A n \in 1..Len(agg.data) :
       IsWeightedSum(agg, attn_weights, v, Unravel(n - 1, agg.shape))

ReturnedBoth(c) ==
  /\ output.ok
  /\ attn_weights.ok
  /\ IF IsMulti
     THEN /\ AggregatedByReturnedWeights(c.heads, c.v)
          /\ output = Apply(params.out, MergeHeads(c, x).attn_output)
     ELSE AggregatedByReturnedWeights(output, c.v)

\* C20: a forward call returns its output together with its attention
\* weights, and the output is the aggregation of the values by exactly those
\* weights: in SelfAttention output[b,i,d] = sum over j of
\* attn_weights[b,i,j] * v[b,j,d]; in MultiHeadAttention the head output at
\* (b,h,i,d) is sum over j of attn_weights[b,h,i,j] * v[b,h,j,d], and the
\* returned output is the out projection of the merged head outputs.
C20_OutputAggregatesReturnedWeights == Returned => ReturnedBoth(Locals)

\* C20 is exercised: a SelfAttention call over two positions returned
\* weights that are not symmetric and values whose rows differ.
C20_Witness ==
  /\ Returned
  /\ ~IsMulti
  /\ x.shape[2] = 2
  /\ head_dim = 2
  /\ attn_weights.data[2] # attn_weights.data[3]
  /\ SubSeq(Locals.v.data, 1, 2) # SubSeq(Locals.v.data, 3, 4)

\* split has shape (batch, num_heads, seq, head_dim) and holds at (b, h, s, d)
\* the entry (b, s, h * head_dim + d) of proj.
IsSplitOf(split, proj) ==
  /\ split.ok
  /\ proj.shape = <<x.shape[1], x.shape[2], num_heads * head_dim>>
  /\ split.shape = <<x.shape[1], num_heads, x.shape[2], head_dim>>
  /\ Len(split.data) = Prod(split.shape)
  /\ \A n \in 1..Len(split.data) :
       LET idx == Unravel(n - 1, split.shape)
       IN  split.data[n] =
             At(proj, <<idx[1], idx[3], idx[2] * head_dim + idx[4]>>)

SplitsOfProjections(c) ==
  /\ IsSplitOf(c.q, Apply(params.query, x))
  /\ IsSplitOf(c.k, Apply(params.key, x))
  /\ IsSplitOf(c.v, Apply(params.value, x))

\* C21: in MultiHeadAttention each of the projected tensors Q, K and V, of
\* shape (batch, seq, num_heads * head_dim), is split into a tensor of shape
\* (batch, num_heads, seq, head_dim) whose entry at (b, h, s, d) is the entry
\* at (b, s, h * head_dim + d) of the projected tensor.
C21_SplitMapping == (Returned /\ IsMulti) => SplitsOfProjections(Locals)

\* C21 is exercised: two heads of width 2 over two positions, with a query
\* projection whose split differs from its own buffer read in order.
C21_Witness ==
  /\ Returned
  /\ IsMulti
  /\ num_heads = 2
  /\ head_dim = 2
  /\ x.shape[2] = 2
  /\ Locals.q.data # Apply(params.query, x).data

\* The merge of the split of proj.
MergedSplit(proj) ==
  MergeHeads([heads |-> SplitHeads(Self, proj, x.shape[1], x.shape[2])],
             x).attn_output

\* merged has shape (batch, seq, num_heads * head_dim) and holds the entry
\* (b, h, s, d) of heads at (b, s, h * head_dim + d).
IsMergeOf(merged, heads) ==
  /\ merged.ok
  /\ merged.shape = <<x.shape[1], x.shape[2], num_heads * head_dim>>
  /\ \A n \in 1..Len(heads.data) :
       LET idx == Unravel(n - 1, heads.shape)
       IN  At(merged, <<idx[1], idx[3], idx[2] * head_dim + idx[4]>>) =
             heads.data[n]

MergeInvertsSplit(c) ==
  /\ \A name \in {"query", "key", "value"} :
       MergedSplit(Apply(params[name], x)) = Apply(params[name], x)
  /\ IsMergeOf(c.attn_output, c.heads)

\* C22: the merge of the heads is the inverse of the split: merging the
\* split of a tensor of shape (batch, seq, num_heads * head_dim) gives the
\* tensor back, and the merged tensor holds the output of head h in the
\* feature columns h * head_dim .. (h + 1) * head_dim - 1, the heads in the
\* order of their index.
C22_MergeInvertsSplit == (Returned /\ IsMulti) => MergeInvertsSplit(Locals)

\* C22 is exercised: two heads of width 2 over two positions whose outputs
\* differ, merged into four feature columns.
C22_Witness ==
  /\ Returned
  /\ IsMulti
  /\ num_heads = 2
  /\ head_dim = 2
  /\ x.shape[2] = 2
  /\ SubSeq(Locals.heads.data, 1, 4) # SubSeq(Locals.heads.data, 5, 8)
  /\ Locals.attn_output.data # Locals.heads.data

\* The s-th matrix (0-based) of t: the last two axes at one position of the
\* leading (batch, head) axes.
SliceOf(t, s) ==
  LET n == t.shape[Len(t.shape) - 1] * Last(t.shape)
  IN  [t EXCEPT !.shape = SubSeq(t.shape, Len(t.shape) - 1, Len(t.shape)),
                !.data = SubSeq(t.data, s * n + 1, s * n + n)]

\* The number of (batch, head) slices of t.
Slices(t) == Prod(SubSeq(t.shape, 1, Len(t.shape) - 2))

\* The attention of slice s computed from that slice of q, k and v alone
\* is the slice s of the tensors of the whole call.
SliceAlone(q, k, v, scores, weights, agg, s) ==
  /\ DivSqrt(MatMul(SliceOf(q, s), Transpose(SliceOf(k, s), <<1, 0>>)),
             head_dim) = SliceOf(scores, s)
  /\ Softmax(SliceOf(scores, s)) = SliceOf(weights, s)
  /\ MatMul(SliceOf(weights, s), SliceOf(v, s)) = SliceOf(agg, s)

\* The softmax of each row of scores taken alone is that row of weights.
RowsAlone(scores, weights) ==
  \A r \in DOMAIN scores :
    Softmax(Tensor(<<Len(scores[r])>>, scores[r])).data = weights[r]

SlicesIndependent(c, agg) ==
  /\ \A s \in 0..(Slices(c.scores) - 1) :
       SliceAlone(c.q, c.k, c.v, c.scores, attn_weights, agg, s)
  /\ x.shape[2] > 0 => RowsAlone(RowsOf(c.scores), RowsOf(attn_weights))

\* The aggregated values of the call: the head outputs before the merge in
\* MultiHeadAttention, the returned output in SelfAttention.
Aggregated(c) == IF IsMulti THEN c.heads ELSE output

\* C23: the (batch, head) slices of the attention computation and the rows of
\* the softmax are independent: each slice of the scores, of the returned
\* weights and of the aggregated values is the result of the computation on
\* that slice of q, k and v alone, and each row of the weights is the softmax
\* of its row of scores alone, so the order in which slices and rows are
\* processed cannot change the result.
C23_SlicesIndependent ==
  Returned => SlicesIndependent(Locals, Aggregated(Locals))

\* C23 is exercised: a call with two heads over two positions whose two
\* slices of weights differ and whose rows of weights differ within a slice.
C23_Witness ==
  /\ Returned
  /\ IsMulti
  /\ num_heads = 2
  /\ x.shape[2] = 2
  /\ SliceOf(attn_weights, 0).data # SliceOf(attn_weights, 1).data
  /\ SubSeq(attn_weights.data, 1, 2) # SubSeq(attn_weights.data, 3, 4)

\* The arguments given to the exponential for a row of scores are <= 0, and
\* 0 for the row maximum; the exponentials then sum to at least 1, and the
\* weights are the softmax of the row without the shift.
ShiftedRow(row, weights) ==
  /\ \A j \in 1..Len(row) : RLe(Shift(row)[j], Zero)
  /\ \E j \in 1..Len(row) : row[j] = RMaxSeq(row) /\ Shift(row)[j] = Zero
  /\ RLe(One, RSum(ExpAll(Shift(row))))
  /\ \A j \in 1..Len(row) :
       weights[j] = RDiv(Exp(row[j]), RSum(ExpAll(row)))

ShiftedRows(scores, weights) ==
  \A r \in DOMAIN scores : ShiftedRow(scores[r], weights[r])

\* Some row of scores has a positive maximum and entries that differ.
PositiveRow(scores) ==
  \E r \in DOMAIN scores :
    ~RLe(RMaxSeq(scores[r]), Zero) /\ ~AllEqual(scores[r])

AsSelfAttention == SelfAttentionCall(Self, params, x)

\* The returned tensors are those of the single-head call s: the weights
\* with a head axis of length 1 put in, the output projected by out.
SingleHeadThenOut(s) ==
  /\ s.attn_weights.ok
  /\ s.output.ok
  /\ attn_weights.shape =
       <<s.attn_weights.shape[1], 1, s.attn_weights.shape[2],
         s.attn_weights.shape[3]>>
  /\ attn_weights.data = s.attn_weights.data
  /\ output = Apply(params.out, s.output)

\* C25: a MultiHeadAttention with num_heads = 1 is single-head attention
\* followed by the out projection: on the same input and with the same
\* query, key and value weights, its attention weights at [b, 0] are the
\* attention weights of SelfAttention at [b], and its output is the out
\* projection of the output of SelfAttention.
C25_OneHeadIsSelfAttention ==
  (Returned /\ IsMulti /\ num_heads = 1) => SingleHeadThenOut(AsSelfAttention)

\* C25 is exercised: a call with one head of width 2 over two positions
\* returned weights that are not uniform and an output that the projection
\* changed.
C25_Witness ==
  /\ Returned
  /\ IsMulti
  /\ num_heads = 1
  /\ head_dim = 2
  /\ x.shape[2] = 2
  /\ attn_weights.data[3] # attn_weights.data[4]
  /\ output.data # AsSelfAttention.output.data

\* layer with every weight negated.
Negated(layer) ==
  [layer EXCEPT !.kernel.data = [n \in 1..Len(@) |-> RNeg(@[n])],
                !.bias.data = [n \in 1..Len(@) |-> RNeg(@[n])]]

\* The parameters with other value weights and, in MultiHeadAttention, other
\* out weights; the query and key weights are kept.
OtherValueParams ==
  {[p EXCEPT !.value = v] :
     v \in {params.query, params.key, Negated(params.value)},
     p \in {params} \cup (IF IsMulti
                          THEN {[params EXCEPT !.out = Negated(@)]}
                          ELSE {})}

\* The batch of two elements a and b, tensors of one shape with batch 1.
Stack(a, b) ==
  [a EXCEPT !.shape = <<2>> \o Tail(a.shape), !.data = a.data \o b.data]

\* The buffer of batch element e (0-based) of t.
BatchElement(t, e) ==
  SubSeq(t.data, e * (Len(t.data) \div t.shape[1]) + 1,
         (e + 1) * (Len(t.data) \div t.shape[1]))

\* The inputs of the shape of x, to stand beside x in a batch.
Neighbours == {t \in Inputs : t.shape = x.shape}

\* Batch element e of the result r is the returned result of x alone.
SameInBatch(r, e) ==
  /\ r.output.ok
  /\ r.attn_weights.ok
  /\ BatchElement(r.output, e) = output.data
  /\ BatchElement(r.attn_weights, e) = attn_weights.data

\* C26: the returned attention weights depend only on the input and the
\* query and key weights: a call on the same input with other value weights
\* (and other out weights in MultiHeadAttention) returns the same attention
\* weights.  The result for one batch element does not depend on the other
\* batch elements: beside any other element, before it or after it, the
\* element's output and weights are those of the element alone.
C26_WeightsIgnoreValues ==
  Returned =>
    /\ \A p \in OtherValueParams :
         Forward(kind, Self, p, x).attn_weights = attn_weights
    /\ x.shape[1] = 1 =>
         \A y \in Neighbours :
           /\ SameInBatch(Forward(kind, Self, params, Stack(x, y)), 0)
           /\ SameInBatch(Forward(kind, Self, params, Stack(y, x)), 1)

\* C26 is exercised: a SelfAttention call over two positions with weights
\* that are not uniform, value weights that differ from the key weights and
\* from their negation, and a neighbour in the batch that differs from x.
C26_Witness ==
  /\ Returned
  /\ ~IsMulti
  /\ x.shape[2] = 2
  /\ attn_weights.data[3] # attn_weights.data[4]
  /\ params.value # params.key
  /\ Negated(params.value) # params.value
  /\ Ones(x.shape) # x
  /\ Forward(kind, Self, [params EXCEPT !.value = params.key], x).output
       # output

\* t with its axis a (1-based) permuted: position i of the result is
\* position perm[i] of t.
PermuteAxis(t, a, perm) ==
  [t EXCEPT !.data =
     SubSeq([n \in 1..Len(t.data) |->
               LET idx == Unravel(n - 1, t.shape)
               IN  t.data[Ravel([idx EXCEPT ![a] = perm[idx[a] + 1] - 1],
                                t.shape) + 1]],
            1, Len(t.data))]

\* The query axis of the attention weights; the key axis follows it.
QueryAxis == IF IsMulti THEN 3 ELSE 2

\* r is the returned result with its sequence positions permuted.
SamePermuted(r, perm) ==
  /\ r.output = PermuteAxis(output, 2, perm)
  /\ r.attn_weights =
       PermuteAxis(PermuteAxis(attn_weights, QueryAxis, perm),
                   QueryAxis + 1, perm)

\* C27: forward is permutation-equivariant over the sequence positions: for
\* every permutation of the positions, the call on the permuted input
\* returns the output with its sequence axis permuted and the attention
\* weights with their query axis and their key axis permuted in the same
\* way.
C27_PermutationEquivariant ==
  Returned =>
    \A perm \in Perms(x.shape[2]) :
      SamePermuted(Forward(kind, Self, params, PermuteAxis(x, 2, perm)), perm)

\* C27 is exercised: a call with two heads on an input whose two positions
\* differ returned an output and weights that the swap of the positions
\* changes.
C27_Witness ==
  /\ Returned
  /\ IsMulti
  /\ num_heads = 2
  /\ x.shape[2] = 2
  /\ PermuteAxis(x, 2, <<2, 1>>) # x
  /\ PermuteAxis(output, 2, <<2, 1>>) # output
  /\ PermuteAxis(PermuteAxis(attn_weights, 3, <<2, 1>>), 4, <<2, 1>>)
       # attn_weights

\* The values v[.., j, d] over the key positions j, for the slice and the
\* feature d of the index idx = (.., i, d).
ValueColumn(v, idx) ==
  [j \in 1..v.shape[Len(v.shape) - 1] |->
     At(v, [idx EXCEPT ![Len(idx) - 1] = j - 1])]

\* a lies between the least and the greatest entry of col.
Between(a, col) ==
  /\ \E j \in 1..Len(col) : RLe(col[j], a)
  /\ \E j \in 1..Len(col) : RLe(a, col[j])

ConvexCombination(agg, v) ==
  \A n \in 1..Len(agg.data) :
    Between(agg.data[n], ValueColumn(v, Unravel(n - 1, agg.shape)))

\* Some entry of agg lies strictly inside the range of its value column.
StrictlyInside(agg, v) ==
  \E n \in 1..Len(agg.data) :
    \A j \in 1..v.shape[Len(v.shape) - 1] :
      ValueColumn(v, Unravel(n - 1, agg.shape))[j] # agg.data[n]

\* C28: the aggregated attention output is a convex combination of the
\* value rows: each entry of the output of SelfAttention, and of the head
\* outputs of MultiHeadAttention before the merge, lies between the least
\* and the greatest value of its feature over the key positions of its
\* slice; where all value rows of a slice are equal, every output row of the
\* slice is that row.
C28_OutputWithinValues ==
  (Returned /\ x.shape[2] > 0) =>
    ConvexCombination(Aggregated(Locals), Locals.v)

\* C28 is exercised: a call with two heads over two positions has a head
\* output strictly between two different values.
C28_Witness ==
  /\ Returned
  /\ IsMulti
  /\ num_heads = 2
  /\ x.shape[2] = 2
  /\ StrictlyInside(Locals.heads, Locals.v)
====
